---------------------------- MODULE Spec2Model ----------------------------
(***************************************************************************)
(* A model of fields_extract.py: the extraction of one Well row and of the *)
(* stimulation records of a document (extract_well_row, parse_stimulation),*)
(* the merge-upsert into the SQLite store (process_json) and the batch     *)
(* driver (main).                                                          *)
(*                                                                         *)
(* Text is a sequence of one-character strings.  An optional value (a      *)
(* Python None, an SQL NULL) is a sequence of length 0 or 1: None is <<>>  *)
(* and a present value v is <<v>>, so the empty string <<<<>>>> and None   *)
(* are different values, as they are in Python and in SQLite.              *)
(***************************************************************************)
EXTENDS Integers, Sequences, FiniteSets, TLC

VARIABLES
    \* ---- the batch driver and the store (specification Spec)
    pc,          \* where main is: "idle", "loop", "raised", "killed"
    json_files,  \* main's json_files: the documents of this run, in sorted path order
    idx,         \* the position of the for loop of main in json_files (1-based)
    db_wells,    \* the committed wells table: api_number -> row
    db_stim,     \* the committed stimulation table, in stimulation_id order
    tx_wells,    \* the wells table as the open connection sees it
    tx_stim,     \* the stimulation table as the open connection sees it
    calls,       \* how many process_json calls were made so far (bounded)
    last,        \* history: what the last process_json call did
    reflected,   \* history: the documents whose writes were committed, in order
    in_tx,       \* history: the documents process_json completed in the open transaction
    \* ---- one application of _normalize_api (specification SpecApi)
    api_raw,     \* the raw candidate
    api_res,     \* what _normalize_api returned for it
    api_step,    \* 0: not applied, 1: applied, 2: applied again to its own result
    \* ---- one application of extract_well_row (specification SpecIdentity)
    id_doc,      \* the document
    id_row,      \* the row extract_well_row returned for it (None before the call)
    \* ---- process_json on documents that print coordinates (specification SpecCoord)
    coord_wells, \* the wells table as the connection sees it
    coord_last,  \* history: the document of the last process_json call, and whether it raised
    \* ---- one application of _dms_to_decimal (specification SpecDms)
    dms_in,      \* the text
    dms_res,     \* the outcome of _dms_to_decimal for it (None before the call)
    \* ---- one application of parse_stimulation (specification SpecStim)
    stim_page,   \* the page text
    stim_res     \* the outcome of parse_stimulation for it (None before the call)

vars == <<pc, json_files, idx, db_wells, db_stim, tx_wells, tx_stim, calls, last,
          reflected, in_tx, api_raw, api_res, api_step, id_doc, id_row,
          coord_wells, coord_last, dms_in, dms_res, stim_page, stim_res>>

batchVars == <<pc, json_files, idx, db_wells, db_stim, tx_wells, tx_stim, calls,
               last, reflected, in_tx>>
apiVars == <<api_raw, api_res, api_step>>
idVars == <<id_doc, id_row>>
coordVars == <<coord_wells, coord_last>>
dmsVars == <<dms_in, dms_res>>
stimVars == <<stim_page, stim_res>>

-----------------------------------------------------------------------------
(* Optional values and characters *)

None == <<>>
Some(v) == <<v>>
IsNone(o) == o = <<>>
\* Python truthiness of an optional string: neither None nor ''
Truthy(o) == o # <<>> /\ o[1] # <<>>

DigitChars == {"0", "1", "2", "3", "4", "5", "6", "7", "8", "9"}
UpperChars == <<"A", "B", "C", "D", "E", "F", "G", "H", "I", "J", "K", "L", "M",
                "N", "O", "P", "Q", "R", "S", "T", "U", "V", "W", "X", "Y", "Z">>
LowerChars == <<"a", "b", "c", "d", "e", "f", "g", "h", "i", "j", "k", "l", "m",
                "n", "o", "p", "q", "r", "s", "t", "u", "v", "w", "x", "y", "z">>
AlphaChars == {UpperChars[i] : i \in 1..26} \cup {LowerChars[i] : i \in 1..26}
SpaceChars == {" ", "\t", "\n"}

IsDigit(c) == c \in DigitChars
IsAlpha(c) == c \in AlphaChars
IsSpace(c) == c \in SpaceChars
NotSpace(c) == c \notin SpaceChars

\* re.sub('[^\\d]', '', s)
DigitsOf(s) == SelectSeq(s, IsDigit)
\* re.sub('\\s+', '', s)
RemoveSpace(s) == SelectSeq(s, NotSpace)

-----------------------------------------------------------------------------
(* _normalize_api *)

\* the mutant of _normalize_api that forgets the dash after the county group
normalize_api_nodash(raw) ==
    LET candidate == RemoveSpace(raw)
        digits == DigitsOf(raw)
    IN  IF \E i \in 1..Len(candidate) : IsAlpha(candidate[i]) THEN None
        ELSE IF Len(digits) < 8 THEN None
        ELSE IF Len(digits) = 14
             THEN Some(SubSeq(digits, 1, 2) \o <<"-">> \o SubSeq(digits, 3, 10)
                       \o <<"-">> \o SubSeq(digits, 11, 12) \o <<"-">>
                       \o SubSeq(digits, 13, 14))
        ELSE IF Len(digits) = 10
             THEN Some(SubSeq(digits, 1, 2) \o <<"-">> \o SubSeq(digits, 3, 10))
        ELSE Some(candidate)

\* the mutant of _normalize_api with the short-candidate rejection at 9 digits
normalize_api_min9(raw) ==
    LET candidate == RemoveSpace(raw)
        digits == DigitsOf(raw)
    IN  IF \E i \in 1..Len(candidate) : IsAlpha(candidate[i]) THEN None
        ELSE IF Len(digits) < 9 THEN None
        ELSE IF Len(digits) = 14
             THEN Some(SubSeq(digits, 1, 2) \o <<"-">> \o SubSeq(digits, 3, 5)
                       \o <<"-">> \o SubSeq(digits, 6, 10) \o <<"-">>
                       \o SubSeq(digits, 11, 12) \o <<"-">> \o SubSeq(digits, 13, 14))
        ELSE IF Len(digits) = 10
             THEN Some(SubSeq(digits, 1, 2) \o <<"-">> \o SubSeq(digits, 3, 5)
                       \o <<"-">> \o SubSeq(digits, 6, 10))
        ELSE Some(candidate)

_normalize_api(raw) ==
    LET candidate == RemoveSpace(raw)
        digits == DigitsOf(raw)
    IN  IF \E i \in 1..Len(candidate) : IsAlpha(candidate[i]) THEN None
        ELSE IF Len(digits) < 8 THEN None
        ELSE IF Len(digits) = 14
             THEN Some(SubSeq(digits, 1, 2) \o <<"-">> \o SubSeq(digits, 3, 5)
                       \o <<"-">> \o SubSeq(digits, 6, 10) \o <<"-">>
                       \o SubSeq(digits, 11, 12) \o <<"-">> \o SubSeq(digits, 13, 14))
        ELSE IF Len(digits) = 10
             THEN Some(SubSeq(digits, 1, 2) \o <<"-">> \o SubSeq(digits, 3, 5)
                       \o <<"-">> \o SubSeq(digits, 6, 10))
        ELSE Some(candidate)


-----------------------------------------------------------------------------
(* Text helpers *)

\* re.sub('\\s+', ' ', s)
CollapseSpace(s) ==
    LET F[i \in 0..Len(s)] ==
            IF i = 0 THEN <<>>
            ELSE IF IsSpace(s[i])
                 THEN IF i > 1 /\ IsSpace(s[i - 1]) THEN F[i - 1]
                      ELSE Append(F[i - 1], " ")
                 ELSE Append(F[i - 1], s[i])
    IN  F[Len(s)]

\* str.strip()
Strip(s) ==
    LET keep == {i \in 1..Len(s) : ~IsSpace(s[i])}
    IN  IF keep = {} THEN <<>>
        ELSE SubSeq(s, CHOOSE i \in keep : \A j \in keep : i <= j,
                       CHOOSE i \in keep : \A j \in keep : j <= i)

\* the lower-case form of a character (re.I comparisons)
Lower(c) ==
    IF \E i \in 1..26 : UpperChars[i] = c
    THEN LowerChars[CHOOSE i \in 1..26 : UpperChars[i] = c]
    ELSE c

\* whether the literal lit occurs in s at position i, ignoring case
MatchAt(s, i, lit) ==
    /\ i >= 1
    /\ i + Len(lit) - 1 <= Len(s)
    /\ \A k \in 1..Len(lit) : Lower(s[i + k - 1]) = Lower(lit[k])

\* s.endswith(lit), case-sensitive
EndsWith(s, lit) ==
    /\ Len(lit) <= Len(s)
    /\ SubSeq(s, Len(s) - Len(lit) + 1, Len(s)) = lit

\* s cut before the leftmost of the positions hits, or s when there is none
CutAtFirst(s, hits) ==
    IF hits = {} THEN s
    ELSE SubSeq(s, 1, (CHOOSE i \in hits : \A j \in hits : i <= j) - 1)

\* the value of a digit string, for strings short enough not to overflow
RECURSIVE IntOf(_)
IntOf(d) ==
    IF d = <<>> THEN 0
    ELSE 10 * IntOf(SubSeq(d, 1, Len(d) - 1))
         + (CHOOSE n \in 0..9 : <<"0", "1", "2", "3", "4", "5", "6", "7", "8", "9">>[n + 1]
                                    = d[Len(d)])

\* a digit string without its leading zeros
RECURSIVE NoLeadingZeros(_)
NoLeadingZeros(d) ==
    IF d # <<>> /\ d[1] = "0" THEN NoLeadingZeros(Tail(d)) ELSE d

\* Path(name).stem: the last path component without its last suffix
PathStem(path) ==
    LET slashes == {i \in 1..Len(path) : path[i] = "/"}
        trimmed == IF path # <<>> /\ path[Len(path)] = "/"
                       /\ \E i \in 1..Len(path) : path[i] # "/"
                   THEN SubSeq(path, 1, Len(path) - 1) ELSE path
        sl == {i \in 1..Len(trimmed) : trimmed[i] = "/"}
        name == IF sl = {} THEN trimmed
                ELSE SubSeq(trimmed, (CHOOSE i \in sl : \A j \in sl : j <= i) + 1,
                            Len(trimmed))
        dots == {i \in 1..Len(name) : name[i] = "."}
        i == IF dots = {} THEN 0 ELSE CHOOSE k \in dots : \A j \in dots : j <= k
    IN  IF 1 < i /\ i < Len(name) THEN SubSeq(name, 1, i - 1) ELSE name

-----------------------------------------------------------------------------
(* Documents                                                               *)
(*                                                                         *)
(* A document is the value json.load returns: pdf_filename and well_name   *)
(* (None when the key is missing) and pages, each a text and a mapping of  *)
(* field labels to values.  A page text is the sequence of its lines, and  *)
(* a line records what the module's patterns find in it: its kind names    *)
(* the pattern table that matches it ("api", "wnum", "shl", "lat", "lon",  *)
(* "stimhdr", "row", "treathdr", "trow", "details"), pat the position in   *)
(* that table of the pattern that matches, cap what group 1 captures; a    *)
(* line no pattern matches is "other", a whitespace-only line "blank".     *)
(* readable is FALSE for a file that open or json.load raises on.  The     *)
(* value of the 'Latitude' field, which the coordinate patterns are        *)
(* searched in, is a text of such lines; every other field value is a      *)
(* string of characters.                                                   *)

Blank == [kind |-> "blank", txt |-> ""]
Other(t) == [kind |-> "other", txt |-> t]
Found(k, p, c) == [kind |-> k, pat |-> p, cap |-> c, txt |-> k]

IsBlankLine(ln) == ln.kind = "blank"

\* text.strip() is non-empty
TextNonEmpty(text) == \E i \in 1..Len(text) : ~IsBlankLine(text[i])

\* dict.get(k): None when the key is missing
FieldGet(f, k) == IF k \in DOMAIN f THEN Some(f[k]) ELSE None

\* Python's `a or b`
Or(a, b) == IF Truthy(a) THEN a ELSE b

\* collect_page_data: later pages override earlier ones
RECURSIVE MergeFields(_)
MergeFields(pages) ==
    IF pages = <<>> THEN <<>>
    ELSE LET rest == MergeFields(SubSeq(pages, 1, Len(pages) - 1))
             f == pages[Len(pages)].fields
         IN  [k \in DOMAIN f \cup DOMAIN rest |->
                 IF k \in DOMAIN f THEN f[k] ELSE rest[k]]

AllTexts(pages) ==
    LET keep == SelectSeq(pages, LAMBDA pg : TextNonEmpty(pg.text))
    IN  [i \in 1..Len(keep) |-> keep[i].text]

collect_page_data(pages) == [merged_fields |-> MergeFields(pages),
                             all_texts |-> AllTexts(pages)]

\* pat.search(text) for pattern number p of table k: group 1 of the leftmost match
PatSearch(k, p, text) ==
    LET hits == {i \in 1..Len(text) : text[i].kind = k /\ text[i].pat = p}
    IN  IF hits = {} THEN None
        ELSE Some(text[CHOOSE i \in hits : \A j \in hits : i <= j].cap)

\* _search(patterns, texts) for the table k of npats patterns: texts in order,
\* for each text the patterns in order; a match whose value is empty is passed over
RECURSIVE SearchFrom(_, _, _, _, _)
SearchFrom(k, npats, texts, t, p) ==
    IF t > Len(texts) THEN None
    ELSE IF p > npats THEN SearchFrom(k, npats, texts, t + 1, 1)
    ELSE LET m == PatSearch(k, p, texts[t])
             val == IF m = None THEN <<>> ELSE Strip(CollapseSpace(m[1]))
         IN  IF m # None /\ val # <<>> THEN Some(val)
             ELSE SearchFrom(k, npats, texts, t, p + 1)

_search(k, npats, texts) == SearchFrom(k, npats, texts, 1, 1)

\* the lengths of the pattern tables
NApiPats == 3
NWnumPats == 4
NShlPats == 3
NLatPats == 2
NLonPats == 2

-----------------------------------------------------------------------------
(* extract_well_row *)

\* sys.int_info.default_max_str_digits: int(s) raises ValueError on a text of more
\* decimal digits than this (CPython 3.11, and the security releases of 3.7 to 3.10)
IntMaxStrDigits == 4300

\* whether int(d) raises for the digits d
IntRaises(d) == Len(d) > IntMaxStrDigits

WellNumMin == 1000
WellNumMax == 199999

\* 1000 <= int(digits) <= 199999, computed without overflowing on long digit strings
InWellRange(digits) ==
    LET sig == NoLeadingZeros(digits)
    IN  /\ Len(sig) <= 6
        /\ WellNumMin <= IntOf(sig)
        /\ IntOf(sig) <= WellNumMax

\* the mutant of _valid_well_num whose lower limit is exclusive
valid_well_num_exclusive(val) ==
    IF ~Truthy(val) THEN None
    ELSE LET digits == DigitsOf(val[1])
         IN  IF digits # <<>> /\ InWellRange(digits) /\ IntOf(NoLeadingZeros(digits)) > WellNumMin
             THEN Some(digits) ELSE None

_valid_well_num(val) ==
    IF ~Truthy(val) THEN None
    ELSE LET digits == DigitsOf(val[1])
         IN  IF digits # <<>> /\ InWellRange(digits) THEN Some(digits) ELSE None

\* a parsed decimal number: sign, integer part, fractional digits without trailing zeros
RECURSIVE NoTrailingZeros(_)
NoTrailingZeros(d) ==
    IF d # <<>> /\ d[Len(d)] = "0" THEN NoTrailingZeros(SubSeq(d, 1, Len(d) - 1)) ELSE d

Num(neg, i, f) == [neg |-> neg /\ (i # 0 \/ f # <<>>), i |-> i, f |-> f]
Negate(x) == Num(~x.neg, x.i, x.f)
\* lo <= x <= hi for whole numbers 0 <= lo <= hi
Between(x, lo, hi) ==
    /\ ~x.neg
    /\ lo <= x.i
    /\ x.i < hi \/ (x.i = hi /\ x.f = <<>>)

\* float(t): None stands for the ValueError float raises on a text that is no number
ParseFloat(t) ==
    LET dots == {i \in 1..Len(t) : t[i] = "."}
    IN  IF \E i \in 1..Len(t) : ~(t[i] = "." \/ IsDigit(t[i])) THEN None
        ELSE IF DigitsOf(t) = <<>> \/ Cardinality(dots) > 1 THEN None
        ELSE IF dots = {} THEN Some(Num(FALSE, IntOf(t), <<>>))
        ELSE LET d == CHOOSE i \in dots : TRUE
             IN  Some(Num(FALSE, IntOf(SubSeq(t, 1, d - 1)),
                          NoTrailingZeros(SubSeq(t, d + 1, Len(t)))))

\* the first position from i on whose character is not in chars (Len(s) + 1 if none)
RECURSIVE SkipIn(_, _, _)
SkipIn(s, i, chars) ==
    IF i <= Len(s) /\ s[i] \in chars THEN SkipIn(s, i + 1, chars) ELSE i

\* the decimal digits of n, at least width of them
RECURSIVE DigitsOfInt(_, _)
DigitsOfInt(n, width) ==
    IF n = 0 /\ width <= 0 THEN <<>>
    ELSE Append(DigitsOfInt(n \div 10, width - 1),
                <<"0", "1", "2", "3", "4", "5", "6", "7", "8", "9">>[(n % 10) + 1])

\* the degree sign
DegreeSign == "°"
HemisphereChars == {"N", "S", "E", "W", "n", "s", "e", "w"}

\* the outcome of a call: raised says whether an exception left it, val is what it
\* returned otherwise
Returned(v) == [raised |-> FALSE, val |-> v]
Raised == [raised |-> TRUE, val |-> None]

\* lines 46-49: round(deg + mins/60 + secs/3600, 7), negated for S and W, as a Num.
\* The number is computed in units of 1e-7 degree: with w the whole seconds of arc
\* (w = 9q + r) and t the thousandths of a second, it is 25000q + 25(1000r + t)/9,
\* rounded to the nearest integer (the quotient is never half-way between two
\* integers).  Exact for seconds with at most three fractional digits and values
\* below 214 degrees.
DmsValue(deg, mins, secs, negative) ==
    LET w == 3600 * deg + 60 * mins + secs.i
        frac3 == SubSeq(secs.f \o <<"0", "0", "0">>, 1, 3)
        x == 1000 * (w % 9) + IntOf(frac3)
        units == 25000 * (w \div 9) + ((50 * x + 9) \div 18)
    IN  Num(negative, units \div 10000000,
            NoTrailingZeros(DigitsOfInt(units % 10000000, 7)))

\* lines 41-49.  re.match anchors the pattern at the start of the stripped text:
\* (\d{1,3}) \s* degree sign \s* (\d{1,2}) ' \s* ([\d.]+) \s* ([NSEWnsew]).
\* float(secs) is not guarded: its ValueError leaves the function
_dms_to_decimal(dms_str) ==
    LET s == Strip(dms_str)
        at(i) == IF i <= Len(s) THEN s[i] ELSE ""
        a == SkipIn(s, 1, DigitChars)
        b == SkipIn(s, a, SpaceChars)
        c == SkipIn(s, b + 1, SpaceChars)
        d == SkipIn(s, c, DigitChars)
        e == SkipIn(s, d + 1, SpaceChars)
        f == SkipIn(s, e, DigitChars \cup {"."})
        g == SkipIn(s, f, SpaceChars)
        m == /\ a - 1 \in 1..3
             /\ at(b) = DegreeSign
             /\ d - c \in 1..2
             /\ at(d) = "'"
             /\ f > e
             /\ at(g) \in HemisphereChars
        secs == ParseFloat(SubSeq(s, e, f - 1))
    IN  IF ~m THEN Returned(None)
        ELSE IF secs = None THEN Raised
        ELSE Returned(Some(DmsValue(IntOf(SubSeq(s, 1, a - 1)), IntOf(SubSeq(s, c, d - 1)),
                                    secs[1], at(g) \in {"S", "W", "s", "w"})))

\* lines 122-130: the ValueError of float(s) is caught, that of _dms_to_decimal is not
_to_coord(s) ==
    IF ~Truthy(s) THEN Returned(None)
    ELSE IF \E i \in 1..Len(s[1]) : s[1][i] = DegreeSign THEN _dms_to_decimal(s[1])
    ELSE Returned(ParseFloat(s[1]))

LatMin == 45
LatMax == 50
LonMin == 96
LonMax == 105

\* the mutant of LatitudeBand that clamps a latitude outside the band to the band
LatitudeBand_clamp(latitude) ==
    IF latitude = None \/ Between(latitude[1], LatMin, LatMax) THEN latitude
    ELSE IF ~latitude[1].neg /\ latitude[1].i >= LatMax THEN Some(Num(FALSE, LatMax, <<>>))
    ELSE Some(Num(FALSE, LatMin, <<>>))

\* lines 133-134: a latitude outside [45.0, 50.0] is dropped
LatitudeBand(latitude) ==
    IF latitude # None /\ ~Between(latitude[1], LatMin, LatMax) THEN None ELSE latitude

\* the mutant of LongitudeBand that keeps the sign of a positive longitude
LongitudeBand_keep_sign(longitude) ==
    IF longitude = None THEN None
    ELSE IF Between(longitude[1], LonMin, LonMax) THEN longitude
    ELSE IF ~Between(Negate(longitude[1]), LonMin, LonMax) THEN None
    ELSE longitude

\* lines 135-139: a positive longitude in [96.0, 105.0] is negated
LongitudeBand(longitude) ==
    IF longitude = None THEN None
    ELSE IF Between(longitude[1], LonMin, LonMax) THEN Some(Negate(longitude[1]))
    ELSE IF ~Between(Negate(longitude[1]), LonMin, LonMax) THEN None
    ELSE longitude

\* text literals
Lit_API == <<"A", "P", "I">>
Lit_WellFileNo == <<"W", "e", "l", "l", " ", "F", "i", "l", "e", " ", "N", "o">>
Lit_DirDrillers == <<"D", "i", "r", "e", "c", "t", "i", "o", "n", "a", "l", " ",
                     "D", "r", "i", "l", "l", "e", "r", "s">>
Lit_Field == <<"F", "i", "e", "l", "d">>
Lit_PadOD == <<"P", "a", "d", " ", "O", "D">>
Lit_CompanyMan == <<"C", "o", "m", "p", "a", "n", "y", " ", "M", "a", "n">>
Lit_Location == <<"L", "o", "c", "a", "t", "i", "o", "n">>
Lit_MudRecord == <<"M", "u", "d", " ", "R", "e", "c", "o", "r", "d">>
Lit_Prospect == <<"P", "r", "o", "s", "p", "e", "c", "t">>
Lit_NDIC == <<"N", "D", "I", "C", "-">>
Lit_UNKNOWN == <<"U", "N", "K", "N", "O", "W", "N">>
Lit_ND == <<"N", "D">>

\* the labels of _JUNK_NAME, 'Field\s*/\s*Prospect' in its forms after whitespace collapse
JunkLabels ==
    {Lit_Location, Lit_DirDrillers, Lit_MudRecord,
     Lit_Field \o <<"/">> \o Lit_Prospect, Lit_Field \o <<" ", "/">> \o Lit_Prospect,
     Lit_Field \o <<"/", " ">> \o Lit_Prospect,
     Lit_Field \o <<" ", "/", " ">> \o Lit_Prospect}

\* _JUNK_NAME.match(name): at most 5 characters, a label, an optional colon, the end
JunkName(name) ==
    LET body == IF name # <<>> /\ name[Len(name)] = ":"
                THEN Strip(SubSeq(name, 1, Len(name) - 1)) ELSE name
    IN  \E lab \in JunkLabels :
            /\ Len(body) >= Len(lab)
            /\ Len(body) - Len(lab) <= 5
            /\ MatchAt(body, Len(body) - Len(lab) + 1, lab)

\* lines 161-169: the cleaning of data['well_name']
CleanWellName(raw) ==
    LET w1 == Strip(CollapseSpace(raw))
        \* re.sub('\s+API\s*:.*$', '', ...)
        w2 == CutAtFirst(w1, {i \in 1..Len(w1) :
                  /\ IsSpace(w1[i])
                  /\ MatchAt(w1, i + 1, Lit_API \o <<":">>)
                     \/ MatchAt(w1, i + 1, Lit_API \o <<" ", ":">>)})
        \* re.sub('\s+Well\s+File\s+No\.?:?.*$', '', ...)
        w3 == CutAtFirst(w2, {i \in 1..Len(w2) :
                  IsSpace(w2[i]) /\ MatchAt(w2, i + 1, Lit_WellFileNo)})
        \* re.sub('\s+(?:Directional\s+Drillers|Field|Pad\s+OD|Company\s+Man)(?:\s*:|)\s*\S.*$', ...)
        w4 == CutAtFirst(w3, {i \in 1..Len(w3) :
                  /\ IsSpace(w3[i])
                  /\ \E lab \in {Lit_DirDrillers, Lit_Field, Lit_PadOD, Lit_CompanyMan} :
                        /\ MatchAt(w3, i + 1, lab)
                        /\ \E j \in (i + 1 + Len(lab))..Len(w3) : ~IsSpace(w3[j])})
        w5 == Strip(w4)
    IN  IF EndsWith(w5, <<":">>) \/ JunkName(w5) THEN <<>> ELSE w5

\* The text cleaners of lines 81-116 and 140-160 (_first_valid_operator, the county
\* clean-up, _clean_datum) are not modelled step by step: what each returns for a
\* document is an attribute of the document, None or a non-empty text.
_first_valid_operator(data) == data.cleaned.operator
CleanCounty(data) == data.cleaned.county
_clean_datum(data) == data.cleaned.datum

\* the mutant of ApiKey that falls back to UNKNOWN as soon as no API was recovered
ApiKey_nofallback(api, well_number) ==
    IF Truthy(api) THEN api[1] ELSE Lit_UNKNOWN

\* line 80: api if api else f'NDIC-{well_number}' if well_number else 'UNKNOWN'
ApiKey(api, well_number) ==
    IF Truthy(api) THEN api[1]
    ELSE IF well_number # <<>> THEN Lit_NDIC \o well_number
    ELSE Lit_UNKNOWN

\* lines 67-68: the raw API candidate, from the fields then the text, normalized
ResolvedApi(merged_fields, all_texts) ==
    LET raw_api == Or(FieldGet(merged_fields, "API #"),
                   Or(FieldGet(merged_fields, "API Number"),
                   Or(FieldGet(merged_fields, "API"),
                      _search("api", NApiPats, all_texts))))
    IN  IF Truthy(raw_api) THEN _normalize_api(raw_api[1]) ELSE None

\* lines 77-79: the well number, from the fields, the text, then the file name
WellNumber(data, merged_fields, all_texts) ==
    LET found == Or(_valid_well_num(FieldGet(merged_fields, "NDIC File Number")),
                 Or(_valid_well_num(FieldGet(merged_fields, "ND Well File #")),
                 Or(_valid_well_num(FieldGet(merged_fields, "Well or Facility No")),
                    _valid_well_num(_search("wnum", NWnumPats, all_texts)))))
        filename == IF data.pdf_filename = None THEN <<>> ELSE data.pdf_filename[1]
    IN  IF Truthy(found) THEN found[1] ELSE DigitsOf(PathStem(filename))

\* line 118: merged_fields.get('Latitude', ''), a text like the page texts
LatFieldVal(merged_fields) ==
    IF "Latitude" \in DOMAIN merged_fields THEN merged_fields["Latitude"] ELSE <<>>

\* lines 119-120: the field value is searched before the page texts
LatS(merged_fields, all_texts) ==
    _search("lat", NLatPats, <<LatFieldVal(merged_fields)>> \o all_texts)
LonS(merged_fields, all_texts) ==
    _search("lon", NLonPats, <<LatFieldVal(merged_fields)>> \o all_texts)

\* line 74: whether int(digits) raises in _valid_well_num(val)
valid_well_num_raises(val) == Truthy(val) /\ IntRaises(DigitsOf(val[1]))

\* line 77: whether the chain of _valid_well_num calls raises: the candidates are
\* tried in order until one is accepted
RECURSIVE WellNumberRaises(_)
WellNumberRaises(candidates) ==
    /\ candidates # <<>>
    /\ \/ valid_well_num_raises(Head(candidates))
       \/ /\ ~Truthy(_valid_well_num(Head(candidates)))
          /\ WellNumberRaises(Tail(candidates))

\* whether an exception leaves extract_well_row(data): the ValueError of int in
\* _valid_well_num (line 77), or that of _dms_to_decimal for the latitude (line 131)
\* or the longitude (line 132)
extract_well_row_raises(data) ==
    LET cp == collect_page_data(data.pages)
    IN  \/ WellNumberRaises(<<FieldGet(cp.merged_fields, "NDIC File Number"),
                              FieldGet(cp.merged_fields, "ND Well File #"),
                              FieldGet(cp.merged_fields, "Well or Facility No"),
                              _search("wnum", NWnumPats, cp.all_texts)>>)
        \/ _to_coord(LatS(cp.merged_fields, cp.all_texts)).raised
        \/ _to_coord(LonS(cp.merged_fields, cp.all_texts)).raised

\* the row extract_well_row returns, each column None or Some(value)
extract_well_row(data) ==
    LET cp == collect_page_data(data.pages)
        merged_fields == cp.merged_fields
        all_texts == cp.all_texts
        api == ResolvedApi(merged_fields, all_texts)
        well_number == WellNumber(data, merged_fields, all_texts)
        api_key == ApiKey(api, well_number)
        shl == Or(FieldGet(merged_fields, "Well Surface Hole Location (SHL)"),
               Or(FieldGet(merged_fields, "Surface Location"),
               Or(FieldGet(merged_fields, "SHL"),
                  _search("shl", NShlPats, all_texts))))
    IN  [api_number |-> Some(api_key),
         well_name |-> Some(CleanWellName(IF data.well_name = None THEN <<>>
                                          ELSE data.well_name[1])),
         well_number |-> Some(well_number),
         operator |-> _first_valid_operator(data),
         county |-> CleanCounty(data),
         state |-> Some(Lit_ND),
         shl_desc |-> shl,
         latitude |-> LatitudeBand(_to_coord(LatS(merged_fields, all_texts)).val),
         longitude |-> LongitudeBand(_to_coord(LonS(merged_fields, all_texts)).val),
         datum |-> _clean_datum(data),
         pdf_filename |-> IF data.pdf_filename = None THEN Some(<<>>)
                          ELSE data.pdf_filename]

-----------------------------------------------------------------------------
(* parse_stimulation *)

\* lines of the stimulation table.  exact: the header holds the literal 'Date Stimulat'
\* (the pattern _STIM_HDR also matches other spellings of it: case, spacing).
HdrLine(exact) == [kind |-> "stimhdr", exact |-> exact, txt |-> "Date Stimulated"]
RowLine(date, formation, top, bottom, stages, volume, units) ==
    [kind |-> "row", txt |-> date, g |-> <<date, formation, top, bottom, stages, volume, units>>]
TreatHdrLine == [kind |-> "treathdr", txt |-> "Type Treatment"]
\* a treatment row: the label and the captures of groups 2..5 (None: group absent)
TreatRowLine(label, g2, g3, g4, g5) ==
    [kind |-> "trow", txt |-> label, label |-> label, g |-> <<g2, g3, g4, g5>>]
DetailsLine == [kind |-> "details", txt |-> "Details"]

StimHdrMatch(ln) == ln.kind = "stimhdr"
StimRowMatch(ln) == ln.kind = "row"
TreatHdrMatch(ln) == ln.kind = "treathdr"
TreatRowMatch(ln) == ln.kind = "trow"
DetailsMatch(ln) == ln.kind = "details"

\* s.replace(',', '')
NotComma(c) == c # ","
\* lines 177-183
_to_float(s) ==
    IF ~Truthy(s) THEN None ELSE ParseFloat(SelectSeq(s[1], NotComma))

\* line 205: the draft record of a matching row.  stages is int(group 5), kept as
\* its decimal digits (a Python int has no width)
DraftRecord(ln) ==
    [date_stimulated |-> Some(ln.g[1]),
     formation |-> Some(ln.g[2]),
     top_ft |-> _to_float(Some(ln.g[3])),
     bottom_ft |-> _to_float(Some(ln.g[4])),
     stages |-> Some(LET d == NoLeadingZeros(ln.g[5]) IN IF d = <<>> THEN <<"0">> ELSE d),
     volume |-> _to_float(Some(ln.g[6])),
     volume_units |-> Some(ln.g[7]),
     treatment_type |-> None, acid_percent |-> None, lbs_proppant |-> None,
     max_pressure |-> None, max_rate |-> None, details |-> None]

\* the mutant of ApplyTreatRow that aligns three numbers to the left
ApplyTreatRow_left_aligned(rec, ln) ==
    LET nums == [k \in 1..4 |-> _to_float(ln.g[k])]
        non_none == SelectSeq(nums, LAMBDA x : x # None)
        typed == [rec EXCEPT !.treatment_type = Some(ln.label)]
    IN  IF Len(non_none) = 4
        THEN [typed EXCEPT !.acid_percent = non_none[1], !.lbs_proppant = non_none[2],
                           !.max_pressure = non_none[3], !.max_rate = non_none[4]]
        ELSE IF Len(non_none) = 3
        THEN [typed EXCEPT !.acid_percent = non_none[1], !.lbs_proppant = non_none[2],
                           !.max_pressure = non_none[3]]
        ELSE IF Len(non_none) >= 1
        THEN [typed EXCEPT !.lbs_proppant = non_none[1]]
        ELSE typed

\* lines 219-233: the treatment row's numbers, mapped by how many are present
ApplyTreatRow(rec, ln) ==
    LET nums == [k \in 1..4 |-> _to_float(ln.g[k])]
        non_none == SelectSeq(nums, LAMBDA x : x # None)
        typed == [rec EXCEPT !.treatment_type = Some(ln.label)]
    IN  IF Len(non_none) = 4
        THEN [typed EXCEPT !.acid_percent = non_none[1], !.lbs_proppant = non_none[2],
                           !.max_pressure = non_none[3], !.max_rate = non_none[4]]
        ELSE IF Len(non_none) = 3
        THEN [typed EXCEPT !.lbs_proppant = non_none[1], !.max_pressure = non_none[2],
                           !.max_rate = non_none[3]]
        ELSE IF Len(non_none) >= 1
        THEN [typed EXCEPT !.lbs_proppant = non_none[1]]
        ELSE typed

\* lines 243-244: '\n'.join(detail_parts), kept as the sequence of the parts
FinishRecord(rec, detail_parts) ==
    IF detail_parts # <<>> THEN [rec EXCEPT !.details = Some(detail_parts)] ELSE rec

\* line 196: while i < n and (not lines[i].strip() or _STIM_HDR.search(lines[i]))
RECURSIVE SkipBlankOrHdr(_, _)
SkipBlankOrHdr(lines, i) ==
    IF i <= Len(lines) /\ (IsBlankLine(lines[i]) \/ StimHdrMatch(lines[i]))
    THEN SkipBlankOrHdr(lines, i + 1) ELSE i

\* line 215: while i < n and not lines[i].strip()
RECURSIVE SkipBlank(_, _)
SkipBlank(lines, i) ==
    IF i <= Len(lines) /\ IsBlankLine(lines[i]) THEN SkipBlank(lines, i + 1) ELSE i

RECURSIVE ScanSeek(_, _, _)
RECURSIVE ScanBody(_, _, _, _, _, _)

\* lines 190-208: the outer loop, looking for a header and the row after it.
\* The outcome is Returned(records), or Raised when int(sm.group(5)) raises
ScanSeek(lines, i, records) ==
    IF i > Len(lines) THEN Returned(records)
    ELSE IF ~StimHdrMatch(lines[i]) THEN ScanSeek(lines, i + 1, records)
    ELSE LET j == SkipBlankOrHdr(lines, i + 1)
         IN  IF j > Len(lines) THEN Returned(records)
             ELSE IF ~StimRowMatch(lines[j]) THEN ScanSeek(lines, j + 1, records)
             ELSE IF IntRaises(lines[j].g[5]) THEN Raised
             ELSE ScanBody(lines, j + 1, DraftRecord(lines[j]), <<>>, FALSE, records)

\* lines 209-245: the inner loop over the lines of one record
ScanBody(lines, i, rec, detail_parts, in_details, records) ==
    IF i > Len(lines)
    THEN ScanSeek(lines, i, Append(records, FinishRecord(rec, detail_parts)))
    ELSE IF StimHdrMatch(lines[i])
    THEN ScanSeek(lines, i, Append(records, FinishRecord(rec, detail_parts)))
    ELSE IF TreatHdrMatch(lines[i])
    THEN LET j == SkipBlank(lines, i + 1)
         IN  IF j <= Len(lines)
             THEN ScanBody(lines, j + 1,
                           IF TreatRowMatch(lines[j]) THEN ApplyTreatRow(rec, lines[j])
                           ELSE rec,
                           detail_parts, in_details, records)
             ELSE ScanBody(lines, j, rec, detail_parts, in_details, records)
    ELSE IF DetailsMatch(lines[i])
    THEN ScanBody(lines, i + 1, rec, detail_parts, TRUE, records)
    ELSE ScanBody(lines, i + 1, rec,
                  IF in_details /\ ~IsBlankLine(lines[i])
                  THEN Append(detail_parts, lines[i].txt) ELSE detail_parts,
                  in_details, records)

\* the outcome of parse_stimulation(page_text): val is the list of records
parse_stimulation(page_text) == ScanSeek(page_text, 1, <<>>)

-----------------------------------------------------------------------------
(* The store: the statements process_json executes *)

\* SQL COALESCE(a, b)
Coalesce(a, b) == IF a # None THEN a ELSE b
\* SQL LENGTH(v): NULL for NULL
SqlLength(v) == IF v = None THEN None ELSE Some(Len(v[1]))
\* whether the SQL comparison a > b is true (it is NULL, not true, when either is NULL)
SqlGreater(a, b) == a # None /\ b # None /\ a[1] > b[1]

\* the mutant of MergeRow that lets the incoming value win (INSERT OR REPLACE)
MergeRow_incoming_wins(old, new) ==
    [old EXCEPT !.well_name = Coalesce(new.well_name, old.well_name),
                !.well_number = Coalesce(new.well_number, old.well_number),
                !.operator = Coalesce(new.operator, old.operator),
                !.county = Coalesce(new.county, old.county),
                !.shl_desc = Coalesce(new.shl_desc, old.shl_desc),
                !.latitude = Coalesce(new.latitude, old.latitude),
                !.longitude = Coalesce(new.longitude, old.longitude),
                !.datum = Coalesce(new.datum, old.datum)]

\* the mutant of MergeRow whose name comparison is >= instead of >
MergeRow_name_ge(old, new) ==
    [old EXCEPT !.well_name =
                    IF new.well_name # None
                       /\ Len(new.well_name[1]) >= Len(Coalesce(old.well_name, Some(<<>>))[1])
                    THEN new.well_name ELSE old.well_name,
                !.well_number = Coalesce(old.well_number, new.well_number),
                !.operator = Coalesce(old.operator, new.operator),
                !.county = Coalesce(old.county, new.county),
                !.shl_desc = Coalesce(old.shl_desc, new.shl_desc),
                !.latitude = Coalesce(old.latitude, new.latitude),
                !.longitude = Coalesce(old.longitude, new.longitude),
                !.datum = Coalesce(old.datum, new.datum)]

\* line 253, ON CONFLICT(api_number) DO UPDATE SET ...: old is the stored row (wells),
\* new the incoming one (excluded); state and pdf_filename are not in the SET list
MergeRow(old, new) ==
    [old EXCEPT !.well_name =
                    IF SqlGreater(SqlLength(new.well_name),
                                  SqlLength(Coalesce(old.well_name, Some(<<>>))))
                    THEN new.well_name ELSE old.well_name,
                !.well_number = Coalesce(old.well_number, new.well_number),
                !.operator = Coalesce(old.operator, new.operator),
                !.county = Coalesce(old.county, new.county),
                !.shl_desc = Coalesce(old.shl_desc, new.shl_desc),
                !.latitude = Coalesce(old.latitude, new.latitude),
                !.longitude = Coalesce(old.longitude, new.longitude),
                !.datum = Coalesce(old.datum, new.datum)]

\* the mutant of UpsertWell whose INSERT leaves the well_name column out
UpsertWell_insert_no_name(wells, row) ==
    LET key == row.api_number[1]
    IN  IF key \in DOMAIN wells
        THEN [wells EXCEPT ![key] = MergeRow(wells[key], row)]
        ELSE [k \in DOMAIN wells \cup {key} |->
                 IF k = key THEN [row EXCEPT !.well_name = None] ELSE wells[k]]

\* line 253: INSERT INTO wells ... ON CONFLICT(api_number) DO UPDATE
UpsertWell(wells, row) ==
    LET key == row.api_number[1]
    IN  IF key \in DOMAIN wells
        THEN [wells EXCEPT ![key] = MergeRow(wells[key], row)]
        ELSE [k \in DOMAIN wells \cup {key} |-> IF k = key THEN row ELSE wells[k]]

\* the largest SQLite INTEGER, 2^63 - 1, as its decimal digits
SqliteMaxInt == <<"9", "2", "2", "3", "3", "7", "2", "0", "3", "6",
                  "8", "5", "4", "7", "7", "5", "8", "0", "7">>

\* a <= b for digit strings of the same length
RECURSIVE DigitsLeq(_, _)
DigitsLeq(a, b) ==
    IF a = <<>> THEN TRUE
    ELSE IF a[1] # b[1] THEN IntOf(<<a[1]>>) < IntOf(<<b[1]>>)
    ELSE DigitsLeq(Tail(a), Tail(b))

\* whether sqlite3 can bind the Python int with these digits (it raises
\* OverflowError on an int that does not fit a 64-bit INTEGER)
FitsSqliteInt(d) ==
    \/ Len(d) < Len(SqliteMaxInt)
    \/ Len(d) = Len(SqliteMaxInt) /\ DigitsLeq(d, SqliteMaxInt)

\* line 260: whether the INSERT INTO stimulation of this record raises
InsertRaises(rec) == ~FitsSqliteInt(rec.stages[1])

\* line 260: the row INSERT INTO stimulation adds (stimulation_id is its position)
StimRow(api_key, rec) ==
    [api_number |-> Some(api_key),
     date_stimulated |-> rec.date_stimulated, formation |-> rec.formation,
     top_ft |-> rec.top_ft, bottom_ft |-> rec.bottom_ft, stages |-> rec.stages,
     volume |-> rec.volume, volume_units |-> rec.volume_units,
     treatment_type |-> rec.treatment_type, acid_percent |-> rec.acid_percent,
     lbs_proppant |-> rec.lbs_proppant, max_pressure |-> rec.max_pressure,
     max_rate |-> rec.max_rate, details |-> rec.details]

\* line 257: the pre-filter `not text or 'Date Stimulat' not in text`
PageSkipped(text) ==
    ~\E i \in 1..Len(text) : text[i].kind = "stimhdr" /\ text[i].exact

\* lines 255-259: the records of the pages the loop does not skip, in page order,
\* up to a page parse_stimulation raises on; raised says whether there is such a page
RECURSIVE PageRecords(_)
PageRecords(pages) ==
    IF pages = <<>> THEN Returned(<<>>)
    ELSE IF PageSkipped(Head(pages).text) THEN PageRecords(Tail(pages))
    ELSE LET parsed == parse_stimulation(Head(pages).text)
             rest == PageRecords(Tail(pages))
         IN  IF parsed.raised THEN [raised |-> TRUE, val |-> <<>>]
             ELSE [raised |-> rest.raised, val |-> parsed.val \o rest.val]

-----------------------------------------------------------------------------
(* process_json *)

\* what one call of process_json does to the tables the connection sees:
\* raised says whether an exception left it, wells and stim are the tables after it
\* (the writes made before an exception stay in the open transaction)
\* the mutant of InsertAll that skips a record the table already holds
RECURSIVE InsertAll_dedup(_, _, _)
InsertAll_dedup(stim, api_key, recs) ==
    IF recs = <<>> THEN [raised |-> FALSE, stim |-> stim]
    ELSE IF InsertRaises(Head(recs)) THEN [raised |-> TRUE, stim |-> stim]
    ELSE IF \E i \in 1..Len(stim) : stim[i] = StimRow(api_key, Head(recs))
    THEN InsertAll_dedup(stim, api_key, Tail(recs))
    ELSE InsertAll_dedup(Append(stim, StimRow(api_key, Head(recs))), api_key, Tail(recs))

\* lines 255-261: the INSERTs of the records, in order, up to the first that raises
RECURSIVE InsertAll(_, _, _)
InsertAll(stim, api_key, recs) ==
    IF recs = <<>> THEN [raised |-> FALSE, stim |-> stim]
    ELSE IF InsertRaises(Head(recs)) THEN [raised |-> TRUE, stim |-> stim]
    ELSE InsertAll(Append(stim, StimRow(api_key, Head(recs))), api_key, Tail(recs))

\* line 251: the outcome of well = extract_well_row(data)
ExtractWell(data) ==
    IF extract_well_row_raises(data) THEN Raised
    ELSE Returned(Some(extract_well_row(data)))

\* lines 248-261.  data is what json.load returned, extracted the outcome of
\* extract_well_row(data) and parsed the records of the pages, in the order the loop
\* inserts them (those of the pages before one parse_stimulation raises on)
ProcessDocument(data, extracted, parsed, wells, stim) ==
    IF ~data.readable \/ extracted.raised
    THEN [raised |-> TRUE, wrote |-> FALSE, wells |-> wells, stim |-> stim]
    ELSE LET well == extracted.val[1]
             api_key == well.api_number[1]
             ins == InsertAll(stim, api_key, parsed.val)
         IN  [raised |-> ins.raised \/ parsed.raised, wrote |-> TRUE,
              wells |-> UpsertWell(wells, well), stim |-> ins.stim]

-----------------------------------------------------------------------------
(* The documents of the batch runs *)

T_Api10 == <<"3", "3", "-", "0", "5", "3", "-", "0", "1", "2", "3", "4">>
T_Api10Spaced == <<"3", "3", " ", "0", "5", "3", " ", "0", "1", "2", "3", "4">>
T_WellA == <<"W", "E", "L", "L", " ", "A">>
T_WellB == <<"W", "E", "L", "L", " ", "B">>
T_WellAUnit2 == <<"W", "E", "L", "L", " ", "A", " ", "U", "N", "I", "T", " ", "2">>
T_WellAApi == <<"W", "E", "L", "L", " ", " ", "A", " ", "A", "P", "I", ":", " ", "3", "3", "-", "0", "5", "3", "-", "0", "1", "2", "3", "4">>
T_LocationLabel == <<"L", "o", "c", "a", "t", "i", "o", "n", ":">>
T_Acme == <<"A", "c", "m", "e", " ", "O", "i", "l">>
T_Other == <<"O", "t", "h", "e", "r", " ", "O", "p", "e", "r", "a", "t", "i", "n", "g">>
T_Mckenzie == <<"M", "c", "k", "e", "n", "z", "i", "e">>
T_NAD83 == <<"N", "A", "D", "8", "3">>
T_Shl == <<"S", "E", "S", "E", " ", "1", "2", "-", "1", "5", "3", "-", "9", "5">>
T_FileA == <<"W", "1", "2", "3", "4", "5", ".", "p", "d", "f">>
T_FileB == <<"W", "2", "0", "0", "0", "1", ".", "p", "d", "f">>
T_FileScan == <<"s", "c", "a", "n", ".", "p", "d", "f">>
T_20001 == <<"2", "0", "0", "0", "1">>
T_500 == <<"5", "0", "0">>
T_Date == <<"1", "/", "2", "/", "2", "0", "2", "0">>
T_Bakken == <<"B", "a", "k", "k", "e", "n">>
T_Barrels == <<"B", "a", "r", "r", "e", "l", "s">>
T_SandFrac == <<"S", "a", "n", "d", " ", "F", "r", "a", "c">>
T_Huge == <<"9", "9", "9", "9", "9", "9", "9", "9", "9", "9", "9", "9", "9", "9", "9", "9", "9", "9", "9", "9">>

NoFields == <<>>
NoCleaned == [operator |-> None, county |-> None, datum |-> None]

\* a stimulation table: header, row, treatment header and row, a details block
StimTable(stages) ==
    <<HdrLine(TRUE),
      RowLine(T_Date, T_Bakken, <<"1", "0", "0", "0", "0">>, <<"2", "0", "0", "0", "0">>, stages, <<"1", ",", "0", "0", "0">>, T_Barrels),
      TreatHdrLine,
      TreatRowLine(T_SandFrac, Some(<<"2", ",", "0", "0", "0">>), Some(<<"9", "0", "0", "0">>), Some(<<"4", "0", ".", "5">>), None),
      DetailsLine, Other("first"), Blank, Other("second")>>

Catalogue ==
    << \* 1: the API in a field, an operator and a latitude, one stimulation record
       [readable |-> TRUE, pdf_filename |-> Some(T_FileA), well_name |-> Some(T_WellA),
        cleaned |-> [operator |-> Some(T_Acme), county |-> None, datum |-> None],
        pages |-> <<[text |-> <<Found("lat", 2, <<"4", "7", ".", "5">>)>> \o StimTable(<<"3", "0">>),
                     fields |-> [k \in {"API #"} |-> T_Api10]]>>],
       \* 2: the same API found in the text, a longer name, no operator, a county,
       \*    a longitude printed without its sign
       [readable |-> TRUE, pdf_filename |-> Some(T_FileB), well_name |-> Some(T_WellAUnit2),
        cleaned |-> [operator |-> None, county |-> Some(T_Mckenzie), datum |-> Some(T_NAD83)],
        pages |-> <<[text |-> <<Found("api", 1, T_Api10Spaced),
                                Found("lon", 2, <<"1", "0", "1", ".", "5">>),
                                Found("shl", 1, T_Shl)>>,
                     fields |-> NoFields]>>],
       \* 3: the same API, another name of the same length, another operator and
       \*    latitude, a stimulation table whose header is spelt in capitals
       [readable |-> TRUE, pdf_filename |-> None, well_name |-> Some(T_WellB),
        cleaned |-> [operator |-> Some(T_Other), county |-> None, datum |-> None],
        pages |-> <<[text |-> <<Found("lat", 2, <<"4", "8", ".", "2", "5">>), HdrLine(FALSE),
                                RowLine(T_Date, T_Bakken, <<"1">>, <<"2">>, <<"3">>, <<"4">>, T_Barrels)>>,
                     fields |-> [k \in {"API Number"} |-> T_Api10]]>>],
       \* 4: no API, a valid well number in a field: the key is NDIC-20001;
       \*    two stimulation records on two pages
       [readable |-> TRUE, pdf_filename |-> Some(T_FileB), well_name |-> None,
        cleaned |-> NoCleaned,
        pages |-> <<[text |-> StimTable(<<"1", "2">>),
                     fields |-> [k \in {"NDIC File Number"} |-> T_20001]],
                    [text |-> StimTable(<<"0", "0", "7">>), fields |-> NoFields]>>],
       \* 5: the API of 1; its second stimulation record has a stage count no
       \*    SQLite INTEGER holds, so its INSERT raises
       [readable |-> TRUE, pdf_filename |-> Some(T_FileA), well_name |-> Some(T_WellAApi),
        cleaned |-> [operator |-> None, county |-> Some(T_Mckenzie), datum |-> None],
        pages |-> <<[text |-> StimTable(<<"5">>) \o StimTable(T_Huge),
                     fields |-> [k \in {"API"} |-> T_Api10]]>>],
       \* 6: a file json.load raises on
       [readable |-> FALSE, pdf_filename |-> None, well_name |-> None,
        cleaned |-> NoCleaned, pages |-> <<>>],
       \* 7: nothing recovered: no API, a well number out of range, no digit in the
       \*    file name, a label for a name: the key is UNKNOWN
       [readable |-> TRUE, pdf_filename |-> Some(T_FileScan),
        well_name |-> Some(T_LocationLabel), cleaned |-> NoCleaned,
        pages |-> <<[text |-> <<Blank>>,
                     fields |-> [k \in {"Well or Facility No"} |-> T_500]]>>] >>

DocIds == 1..Len(Catalogue)

\* extract_well_row and the records of each document
WellOf == [d \in DocIds |-> IF Catalogue[d].readable THEN extract_well_row(Catalogue[d])
                            ELSE <<>>]
ExtractedOf == [d \in DocIds |-> IF Catalogue[d].readable THEN ExtractWell(Catalogue[d])
                                 ELSE Raised]
ParsedOf == [d \in DocIds |-> PageRecords(Catalogue[d].pages)]
RecordsOf == [d \in DocIds |-> ParsedOf[d].val]

\* process_json(json_path, conn) on the tables the connection sees
process_json(json_path, wells, stim) ==
    ProcessDocument(Catalogue[json_path], ExtractedOf[json_path], ParsedOf[json_path],
                    wells, stim)

-----------------------------------------------------------------------------
(* main: the batch driver *)

\* the most process_json calls of a behaviour, over all runs of main
MaxCalls == 3
\* the most files of one run
MaxFiles == 2

EmptyTable == <<>>
NoLast == [called |-> FALSE]

RECURSIVE SeqsUpTo(_, _)
SeqsUpTo(S, n) ==
    IF n = 0 THEN {<<>>}
    ELSE LET shorter == SeqsUpTo(S, n - 1)
         IN  shorter \cup {Append(q, x) : q \in {r \in shorter : Len(r) = n - 1}, x \in S}

BatchInit ==
    /\ pc = "idle"
    /\ json_files = <<>>
    /\ idx = 1
    /\ db_wells = EmptyTable
    /\ db_stim = <<>>
    /\ tx_wells = EmptyTable
    /\ tx_stim = <<>>
    /\ calls = 0
    /\ last = NoLast
    /\ reflected = <<>>
    /\ in_tx = <<>>

\* lines 266-272: main finds the files, connects and creates the tables if they are
\* missing; the connection sees the committed tables.  (With no file main returns
\* at once and changes nothing.)
Start ==
    /\ pc \in {"idle", "done", "aborted", "killed"}
    /\ calls < MaxCalls
    /\ \E files \in SeqsUpTo(DocIds, MaxFiles) :
          /\ files # <<>>
          /\ Len(files) <= MaxCalls - calls
          /\ json_files' = files
    /\ idx' = 1
    /\ pc' = "loop"
    /\ tx_wells' = db_wells
    /\ tx_stim' = db_stim
    /\ in_tx' = <<>>
    /\ UNCHANGED <<db_wells, db_stim, calls, last, reflected>>

\* lines 273-274: one turn of the loop, process_json(path, conn).  An exception
\* is not caught: it leaves the loop
ProcessJson ==
    /\ pc = "loop"
    /\ idx <= Len(json_files)
    /\ LET d == json_files[idx]
           r == process_json(d, tx_wells, tx_stim)
           key == WellOf[d].api_number[1]
       IN  /\ tx_wells' = r.wells
           /\ tx_stim' = r.stim
           /\ pc' = IF r.raised THEN "raised" ELSE "loop"
           /\ idx' = IF r.raised THEN idx ELSE idx + 1
           /\ in_tx' = IF r.raised THEN in_tx ELSE Append(in_tx, d)
           /\ last' = [called |-> TRUE, doc |-> d, raised |-> r.raised,
                       wrote |-> r.wrote,
                       prev |-> IF last.called /\ ~last.raised
                                   /\ last.wells_after = tx_wells
                                THEN last.doc ELSE 0,
                       before |-> IF r.wrote /\ key \in DOMAIN tx_wells
                                  THEN Some(tx_wells[key]) ELSE None,
                       wells_before |-> tx_wells, wells_after |-> r.wells,
                       stim_before |-> tx_stim, stim_after |-> r.stim]
    /\ calls' = calls + 1
    /\ UNCHANGED <<json_files, db_wells, db_stim, reflected>>

\* the mutant of Commit that a try/except around process_json would make: the
\* batch commits although a document raised half-way
Commit_after_raise ==
    /\ \/ pc = "loop" /\ idx > Len(json_files)
       \/ pc = "raised"
    /\ db_wells' = tx_wells
    /\ db_stim' = tx_stim
    /\ reflected' = reflected \o in_tx
    /\ pc' = "done"
    /\ UNCHANGED <<json_files, idx, tx_wells, tx_stim, calls, last, in_tx>>

\* lines 275-276: after the last file, conn.commit() and conn.close()
Commit ==
    /\ pc = "loop"
    /\ idx > Len(json_files)
    /\ db_wells' = tx_wells
    /\ db_stim' = tx_stim
    /\ reflected' = reflected \o in_tx
    /\ pc' = "done"
    /\ UNCHANGED <<json_files, idx, tx_wells, tx_stim, calls, last, in_tx>>

\* lines 273-274: the exception of process_json leaves main; the connection goes
\* without a commit and its transaction is rolled back
Abort ==
    /\ pc = "raised"
    /\ pc' = "aborted"
    /\ tx_wells' = db_wells
    /\ tx_stim' = db_stim
    /\ in_tx' = <<>>
    /\ UNCHANGED <<json_files, idx, db_wells, db_stim, calls, last, reflected>>

\* the process dies before conn.commit(): SQLite rolls the open transaction back
Kill ==
    /\ pc = "loop"
    /\ pc' = "killed"
    /\ tx_wells' = db_wells
    /\ tx_stim' = db_stim
    /\ in_tx' = <<>>
    /\ UNCHANGED <<json_files, idx, db_wells, db_stim, calls, last, reflected>>

ApiIdle == api_raw = <<>> /\ api_res = None /\ api_step = 0
IdIdle == id_doc = None /\ id_row = None
CoordIdle == coord_wells = EmptyTable /\ coord_last = NoLast
DmsIdle == dms_in = <<>> /\ dms_res = None
StimIdle == stim_page = <<>> /\ stim_res = None

Init == BatchInit /\ ApiIdle /\ IdIdle /\ CoordIdle /\ DmsIdle /\ StimIdle

Next ==
    \/ Start /\ UNCHANGED <<apiVars, idVars, coordVars, dmsVars, stimVars>>
    \/ ProcessJson /\ UNCHANGED <<apiVars, idVars, coordVars, dmsVars, stimVars>>
    \/ Commit /\ UNCHANGED <<apiVars, idVars, coordVars, dmsVars, stimVars>>
    \/ Abort /\ UNCHANGED <<apiVars, idVars, coordVars, dmsVars, stimVars>>
    \/ Kill /\ UNCHANGED <<apiVars, idVars, coordVars, dmsVars, stimVars>>

Spec == Init /\ [][Next]_vars

-----------------------------------------------------------------------------
(* _normalize_api on its own: the raw candidates and its application *)

\* the most digits of a raw candidate
MaxDigits == 15

MasterDigits == <<"3", "3", "0", "5", "3", "0", "1", "2", "3", "4", "9", "8", "7", "6", "5", "1", "2", "0", "4">>

\* what may stand between the digits of a candidate: nothing, a dash, white space,
\* another mark, a letter
Separators == {<<>>, <<"-">>, <<" ">>, <<"\t", " ">>, <<".">>, <<"x">>}

\* the raw candidates: 6 to MaxDigits digits with separators at up to two places
ApiInputs ==
    {SubSeq(MasterDigits, 1, p1) \o s1 \o SubSeq(MasterDigits, p1 + 1, p2) \o s2
        \o SubSeq(MasterDigits, p2 + 1, n) :
        <<n, p1, p2, s1, s2>> \in
            {t \in (6..MaxDigits) \X (0..MaxDigits) \X (0..MaxDigits)
                     \X Separators \X Separators :
                t[2] <= t[3] /\ t[3] <= t[1]}}

ApiInit ==
    /\ api_raw \in ApiInputs
    /\ api_res = None
    /\ api_step = 0

\* _normalize_api(raw)
Normalize ==
    /\ api_step = 0
    /\ api_res' = _normalize_api(api_raw)
    /\ api_step' = 1
    /\ UNCHANGED api_raw

\* _normalize_api applied to what it returned
Renormalize ==
    /\ api_step = 1
    /\ api_res # None
    /\ api_raw' = api_res[1]
    /\ api_res' = _normalize_api(api_res[1])
    /\ api_step' = 2

SpecApiInit == ApiInit /\ BatchInit /\ IdIdle /\ CoordIdle /\ DmsIdle /\ StimIdle

SpecApiNext ==
    \/ Normalize /\ UNCHANGED <<batchVars, idVars, coordVars, dmsVars, stimVars>>
    \/ Renormalize /\ UNCHANGED <<batchVars, idVars, coordVars, dmsVars, stimVars>>

SpecApi == SpecApiInit /\ [][SpecApiNext]_vars

-----------------------------------------------------------------------------
(* extract_well_row on its own: the documents and its application *)

T_12345 == <<"1", "2", "3", "4", "5">>
T_1000 == <<"1", "0", "0", "0">>
T_999 == <<"9", "9", "9">>
T_199999 == <<"1", "9", "9", "9", "9", "9">>
T_200000 == <<"2", "0", "0", "0", "0", "0">>
T_1000000 == <<"1", "0", "0", "0", "0", "0", "0">>
T_No12345 == <<"N", "o", ".", " ", "1", "2", ",", "3", "4", "6">>
T_Zeros == <<"0", "0", "0", "1", "2", "3", "4", "5", "6">>
T_NA == <<"n", "/", "a">>
T_30000 == <<"3", "0", "0", "0", "0">>
T_40000 == <<"4", "0", "0", "0", "0">>
T_FileV2 == <<"o", "u", "t", "/", "W", "1", "2", "3", ".", "v", "2", ".", "p", "d", "f">>

\* the value of a field: None when the page has no such label
FieldValues1 == {None, Some(<<>>), Some(T_12345), Some(T_500), Some(T_1000), Some(T_999),
                 Some(T_199999), Some(T_200000), Some(T_No12345), Some(T_NA)}
FieldValues2 == {None, Some(T_1000000), Some(T_Zeros), Some(T_20001), Some(T_500)}
FieldValues3 == {None, Some(T_30000), Some(T_999)}

\* page texts: none; a match of the first pattern; an earlier match of the third
\* pattern and a later one of the first; a match out of range
IdTexts == {<<>>,
            <<Other("report"), Found("wnum", 1, T_40000)>>,
            <<Found("wnum", 3, T_30000), Blank, Found("wnum", 1, T_40000)>>,
            <<Found("wnum", 2, T_500), Found("wnum", 2, T_40000)>>}

IdFiles == {None, Some(T_FileA), Some(T_FileScan), Some(T_FileV2)}

\* the fields of a page, from the values of the labels that are present
FieldsOf(labelled) ==
    LET present == {k \in DOMAIN labelled : labelled[k] # None}
    IN  [k \in present |-> labelled[k][1]]

\* documents of two pages: the second page gives 'NDIC File Number' again when
\* again is not None, and carries the text
IdDoc(file, api, v1, v2, v3, again, text) ==
    [readable |-> TRUE, pdf_filename |-> file, well_name |-> None, cleaned |-> NoCleaned,
     pages |-> <<[text |-> <<>>,
                  fields |-> FieldsOf([k \in {"API #", "NDIC File Number", "ND Well File #"}
                                          |-> CASE k = "API #" -> api
                                                [] k = "NDIC File Number" -> v1
                                                [] OTHER -> v2])],
                 [text |-> text,
                  fields |-> FieldsOf([k \in {"NDIC File Number", "Well or Facility No"}
                                          |-> IF k = "NDIC File Number" THEN again
                                              ELSE v3])]>>]

IdDocs ==
    {IdDoc(file, api, v1, v2, v3, again, text) :
        <<file, api, v1, v2, v3, again, text>> \in
            IdFiles \X {None, Some(T_Api10), Some(T_NA)} \X FieldValues1 \X FieldValues2
                \X FieldValues3 \X {None, Some(T_999)} \X IdTexts}

IdInit ==
    /\ id_doc \in {Some(d) : d \in IdDocs}
    /\ id_row = None

\* well = extract_well_row(data)
ExtractWellRow ==
    /\ id_row = None
    /\ id_row' = Some(extract_well_row(id_doc[1]))
    /\ UNCHANGED id_doc

SpecIdentityInit == IdInit /\ BatchInit /\ ApiIdle /\ CoordIdle /\ DmsIdle /\ StimIdle

SpecIdentityNext == ExtractWellRow /\ UNCHANGED <<batchVars, apiVars, coordVars, dmsVars, stimVars>>

SpecIdentity == SpecIdentityInit /\ [][SpecIdentityNext]_vars

-----------------------------------------------------------------------------
(* process_json on documents that print coordinates *)

\* lines matching _LAT_PATS: a degree-minute-second capture ending in N (pattern 1)
\* or a decimal capture (pattern 2)
LatLines ==
    {Found("lat", 1, <<"4", "7", "°", "3", "0", "'", "0", "N">>),
     Found("lat", 1, <<"4", "7", "°", " ", "3", "0", "'", " ", " ", "0", " ", "n">>),
     Found("lat", 1, <<"5", "0", "°", "0", "'", "0", "N">>),
     Found("lat", 1, <<"5", "0", "°", "0", "'", "0", ".", "0", "0", "1", "N">>),
     Found("lat", 1, <<"4", "4", "°", "5", "9", "'", "5", "9", ".", "9", "9", "9", "N">>),
     Found("lat", 1, <<"4", "9", "°", "9", "9", "'", "0", "N">>),
     Found("lat", 1, <<"4", "7", "°", "3", "0", "'", "1", ".", "2", ".", "3", "N">>),
     Found("lat", 1, <<"4", "7", "°", "3", "0", "'", ".", "N">>),
     Found("lat", 2, <<"4", "7", ".", "5">>),
     Found("lat", 2, <<"4", "5", ".", "0">>),
     Found("lat", 2, <<"5", "0", ".", "0">>),
     Found("lat", 2, <<"5", "0", ".", "0", "0", "0", "1">>),
     Found("lat", 2, <<"4", "4", ".", "9", "9", "9", "9">>),
     Found("lat", 2, <<"5", "1", ".", "2">>),
     Found("lat", 2, <<"1", "0", "1", ".", "5">>),
     Found("lat", 2, <<"0", ".", "0">>)}

\* lines matching _LON_PATS: a degree-minute-second capture ending in W (pattern 1)
\* or a decimal capture (pattern 2)
LonLines ==
    {Found("lon", 1, <<"1", "0", "1", "°", "1", "5", "'", "0", "W">>),
     Found("lon", 1, <<"1", "0", "5", "°", " ", "0", "'", " ", "0", " ", "w">>),
     Found("lon", 1, <<"1", "0", "5", "°", "0", "'", "0", ".", "0", "0", "1", "W">>),
     Found("lon", 1, <<"9", "6", "°", "0", "'", "0", "W">>),
     Found("lon", 1, <<"4", "7", "°", "0", "'", "0", "W">>),
     Found("lon", 1, <<"1", "0", "1", "°", "1", "5", "'", "1", ".", "2", ".", "3", "W">>),
     Found("lon", 2, <<"1", "0", "1", ".", "5">>),
     Found("lon", 2, <<"9", "6", ".", "0">>),
     Found("lon", 2, <<"1", "0", "5", ".", "0">>),
     Found("lon", 2, <<"1", "0", "5", ".", "0", "0", "0", "1">>),
     Found("lon", 2, <<"9", "5", ".", "9", "9", "9", "9">>),
     Found("lon", 2, <<"4", "7", ".", "0">>),
     Found("lon", 2, <<"0", ".", "5">>)}

\* a document of one page with the API in a field: the lines of texts in its text,
\* the lines of field as the value of its 'Latitude' field when there are any
CoordDoc(texts, field) ==
    [readable |-> TRUE, pdf_filename |-> Some(T_FileA), well_name |-> Some(T_WellA),
     cleaned |-> NoCleaned,
     pages |-> <<[text |-> texts,
                  fields |-> [k \in {"API #"} \cup (IF field = <<>> THEN {} ELSE {"Latitude"})
                                 |-> IF k = "API #" THEN T_Api10 ELSE field]]>>]

\* no coordinate, a latitude, a longitude, both (in either order), and a latitude in
\* the 'Latitude' field with another latitude or a longitude in the text
CoordDocs ==
    {CoordDoc(<<>>, <<>>)}
    \cup {CoordDoc(<<a>>, <<>>) : a \in LatLines \cup LonLines}
    \cup {CoordDoc(<<a, b>>, <<>>) :
             a \in LatLines,
             b \in {Found("lon", 1, <<"1", "0", "1", "°", "1", "5", "'", "0", "W">>), Found("lon", 2, <<"1", "0", "5", ".", "0">>)}}
    \cup {CoordDoc(<<b, a>>, <<>>) :
             a \in {Found("lat", 1, <<"4", "7", "°", "3", "0", "'", "0", "N">>), Found("lat", 2, <<"5", "1", ".", "2">>)},
             b \in LonLines}
    \cup {CoordDoc(<<b>>, <<a>>) :
             a \in {Found("lat", 2, <<"4", "8", ".", "2", "5">>), Found("lat", 2, <<"5", "2", ".", "0">>)},
             b \in {Found("lat", 2, <<"4", "7", ".", "5">>), Found("lat", 1, <<"4", "7", "°", "3", "0", "'", ".", "N">>),
                    Found("lon", 2, <<"1", "0", "1", ".", "5">>)}}

\* the outcome of extract_well_row for each of these documents
CoordExtracted == [d \in CoordDocs |-> ExtractWell(d)]

\* process_json(path, conn) for each of these documents, on the wells table the
\* connection sees
CoordProcess(d, wells) ==
    ProcessDocument(d, CoordExtracted[d], PageRecords(d.pages), wells, <<>>)

CoordInit ==
    /\ coord_wells = EmptyTable
    /\ coord_last = NoLast

\* lines 273-274: process_json(path, conn) on one of the documents; none of them
\* has a stimulation table, so only the wells table is written
ProcessCoordJson ==
    /\ ~(coord_last.called /\ coord_last.raised)
    /\ \E d \in CoordDocs :
          LET r == CoordProcess(d, coord_wells)
          IN  /\ coord_wells' = r.wells
              /\ coord_last' = [called |-> TRUE, doc |-> d, raised |-> r.raised,
                                before |-> coord_wells]

SpecCoordInit == CoordInit /\ BatchInit /\ ApiIdle /\ IdIdle /\ DmsIdle /\ StimIdle

SpecCoordNext ==
    ProcessCoordJson /\ UNCHANGED <<batchVars, apiVars, idVars, dmsVars, stimVars>>

SpecCoord == SpecCoordInit /\ [][SpecCoordNext]_vars

-----------------------------------------------------------------------------
(* _dms_to_decimal on its own: degree-minute-second texts and its application *)

\* the parts of a text: degrees, minutes and seconds as digits, whether the parts
\* are spaced, the mark after the seconds (none or the double prime) and the
\* hemisphere letter
DmsParts ==
    [deg : {<<"5">>, <<"4", "7">>, <<"1", "0", "1">>},
     mins : {<<"0">>, <<"1", "5">>, <<"3", "0">>},
     secs : {<<"0">>, <<"1", "8">>, <<"3", "6">>},
     spaced : BOOLEAN,
     mark : {<<>>, <<"\"">>},
     letter : {"N", "S", "E", "W", "n", "w"}]

\* the text of the parts, as in 47 deg 30' 0" N
DmsText(p) ==
    LET sp == IF p.spaced THEN <<" ">> ELSE <<>>
    IN  p.deg \o <<DegreeSign>> \o sp \o p.mins \o <<"'">> \o sp \o p.secs \o p.mark
            \o sp \o <<p.letter>>

DmsInputs == {DmsText(p) : p \in DmsParts}

DmsInit ==
    /\ dms_in \in DmsInputs
    /\ dms_res = None

\* _dms_to_decimal(dms_str)
DmsToDecimal ==
    /\ dms_res = None
    /\ dms_res' = Some(_dms_to_decimal(dms_in))
    /\ UNCHANGED dms_in

SpecDmsInit == DmsInit /\ BatchInit /\ ApiIdle /\ IdIdle /\ CoordIdle /\ StimIdle

SpecDmsNext ==
    DmsToDecimal /\ UNCHANGED <<batchVars, apiVars, idVars, coordVars, stimVars>>

SpecDms == SpecDmsInit /\ [][SpecDmsNext]_vars

-----------------------------------------------------------------------------
(* parse_stimulation on its own: page texts and its application *)

\* the most lines of a page text made of any lines
MaxLines == 5

StimRowA == RowLine(T_Date, T_Bakken, <<"1", "0", "0">>, <<"2", "0", "0">>, <<"3">>, <<"5", "0", "0">>, T_Barrels)
\* a row whose stage count has one digit more than int converts
StimRowLong ==
    RowLine(T_Date, T_Bakken, <<"1", "0", "0">>, <<"2", "0", "0">>, [i \in 1..(IntMaxStrDigits + 1) |-> "9"],
            <<"5", "0", "0">>, T_Barrels)

\* the captures of groups 2 and 3 of _TREAT_ROW ([\d,]+) and of groups 4 and 5
\* ((?:\s+([\d.]+))?, group 5 only after group 4), well-formed or not
TreatCaptures23 == {Some(<<"2", ",", "0", "0", "0">>), Some(<<"9", "0", "0", "0">>), Some(<<",">>)}
TreatCaptures45 ==
    {<<None, None>>, <<Some(<<"4", "0", ".", "5">>), None>>, <<Some(<<"4", "0", ".", "5">>), Some(<<"7">>)>>,
     <<Some(<<"1", ".", "2", ".", "3">>), Some(<<"7">>)>>, <<Some(<<"4", "0", ".", "5">>), Some(<<".">>)>>,
     <<Some(<<".">>), None>>}
TreatRows ==
    {TreatRowLine(T_SandFrac, g2, g3, g45[1], g45[2]) :
        g2 \in TreatCaptures23, g3 \in TreatCaptures23, g45 \in TreatCaptures45}

\* the lines the pages are made of
StimLines ==
    {Blank, Other("text"), HdrLine(TRUE), StimRowA, TreatHdrLine, DetailsLine,
     TreatRowLine(T_SandFrac, Some(<<"2", ",", "0", "0", "0">>), Some(<<"9", "0", "0", "0">>), Some(<<"4", "0", ".", "5">>), Some(<<"7">>))}

\* one record with a treatment row, or with two
TreatPages ==
    {<<HdrLine(TRUE), StimRowA, TreatHdrLine>> \o gap \o <<r>> :
        gap \in {<<>>, <<Blank>>}, r \in TreatRows}
    \cup {<<HdrLine(TRUE), StimRowA, TreatHdrLine, r1, TreatHdrLine, r2>> :
             r1 \in TreatRows,
             r2 \in {r \in TreatRows : r.g[1] = Some(<<"9", "0", "0", "0">>) /\ r.g[2] # r.g[1]}}

\* pages with the long stage count: where the scanner takes it for a row, and
\* where it does not
LongPages ==
    {<<HdrLine(TRUE), StimRowLong>>, <<HdrLine(TRUE), StimRowA, HdrLine(TRUE), Blank, StimRowLong>>,
     <<Other("text"), StimRowLong>>, <<HdrLine(TRUE), StimRowA, StimRowLong>>}

StimPages == SeqsUpTo(StimLines, MaxLines) \cup TreatPages \cup LongPages

StimInit ==
    /\ stim_page \in StimPages
    /\ stim_res = None

\* parse_stimulation(text)
ParseStimulation ==
    /\ stim_res = None
    /\ stim_res' = Some(parse_stimulation(stim_page))
    /\ UNCHANGED stim_page

SpecStimInit == StimInit /\ BatchInit /\ ApiIdle /\ IdIdle /\ CoordIdle /\ DmsIdle

SpecStimNext ==
    ParseStimulation /\ UNCHANGED <<batchVars, apiVars, idVars, coordVars, dmsVars>>

SpecStim == SpecStimInit /\ [][SpecStimNext]_vars

-----------------------------------------------------------------------------
(* The merge policy (specification Spec) *)

\* the last call wrote a well whose api_number the table already held
LastWasUpdate == last.called /\ last.wrote /\ last.before # None
LastKey == WellOf[last.doc].api_number[1]
LastOld == last.before[1]
LastNew == WellOf[last.doc]
LastNow == last.wells_after[LastKey]

CoalescedColumns == {"well_number", "operator", "county", "state", "shl_desc",
                     "latitude", "longitude", "datum", "pdf_filename"}

\* C1. After every upsert on an api_number the table already holds, each column
\* other than api_number and well_name keeps the stored value when that was not
\* NULL and takes the incoming value when it was NULL: a value once stored is
\* never changed or nulled by a later upsert.
Thm_C1_CoalesceMerge ==
    LastWasUpdate =>
        \A c \in CoalescedColumns :
            LastNow[c] = IF LastOld[c] # None THEN LastOld[c] ELSE LastNew[c]

\* an upsert that kept a stored operator against a NULL and filled a NULL county
Wit_C1_KeptAndFilled ==
    /\ LastWasUpdate
    /\ LastOld.operator # None /\ LastNew.operator = None
    /\ LastNow.operator = LastOld.operator
    /\ LastOld.county = None /\ LastNew.county # None
    /\ LastNow.county = LastNew.county

\* LENGTH of a stored name, NULL counting as 0
NameLength(v) == IF v = None THEN 0 ELSE Len(v[1])

\* C2. On an upsert whose api_number exists, the stored well_name becomes the
\* incoming one exactly when the incoming one is strictly longer than the stored
\* one (NULL counting as length 0); otherwise it stays as it was.
Thm_C2_LongerNameWins ==
    LastWasUpdate =>
        IF LastNew.well_name # None
           /\ Len(LastNew.well_name[1]) > NameLength(LastOld.well_name)
        THEN LastNow.well_name = LastNew.well_name
        ELSE LastNow.well_name = LastOld.well_name

\* an upsert that replaced the stored name by a longer one
Wit_C2_Replaced ==
    /\ LastWasUpdate
    /\ Len(LastNew.well_name[1]) > NameLength(LastOld.well_name)
    /\ LastNow.well_name = LastNew.well_name
    /\ LastNow.well_name # LastOld.well_name

\* C3. Processing the same document twice in a row leaves the wells table as the
\* first processing left it: same rows, same value in every column.
Thm_C3_UpsertIdempotent ==
    (last.called /\ ~last.raised /\ last.prev = last.doc) =>
        last.wells_after = last.wells_before

\* document 2 processed twice in a row on the row document 1 left, which it refines
Wit_C3_TwiceInARow ==
    /\ last.called /\ ~last.raised /\ last.prev = last.doc
    /\ reflected = <<1>>
    /\ in_tx = <<2, 2>>

\* the stimulation rows a document yields under its key
RowsOf(d) ==
    [i \in 1..Len(RecordsOf[d]) |-> StimRow(WellOf[d].api_number[1], RecordsOf[d][i])]

\* C4. Every process_json call appends one stimulation row per record parsed from
\* the document and leaves the rows already there as they were, so a document
\* processed again adds its rows again.  (A call that an exception leaves has
\* appended the rows of the records before the one that raised.)
Thm_C4_StimulationAppendOnly ==
    last.called =>
        /\ Len(last.stim_after) >= Len(last.stim_before)
        /\ SubSeq(last.stim_after, 1, Len(last.stim_before)) = last.stim_before
        /\ ~last.raised => last.stim_after = last.stim_before \o RowsOf(last.doc)
        /\ last.raised =>
              \E k \in 0..Len(RecordsOf[last.doc]) :
                  last.stim_after = last.stim_before \o SubSeq(RowsOf(last.doc), 1, k)

\* a call that appended a second copy of a row the table already held
Wit_C4_Duplicated ==
    /\ last.called /\ ~last.raised
    /\ Len(last.stim_after) > Len(last.stim_before)
    /\ \E i \in 1..Len(last.stim_before) :
          last.stim_before[i] = last.stim_after[Len(last.stim_after)]

\* the well upsert and all the stimulation inserts of document d
FullEffect(d, tables) ==
    [wells |-> UpsertWell(tables.wells, WellOf[d]), stim |-> tables.stim \o RowsOf(d)]

RECURSIVE Replay(_)
Replay(docs) ==
    IF docs = <<>> THEN [wells |-> EmptyTable, stim |-> <<>>]
    ELSE FullEffect(docs[Len(docs)], Replay(SubSeq(docs, 1, Len(docs) - 1)))

\* C5. Whatever fails (an exception inside process_json, a crash before the
\* commit), the committed tables are those that a sequence of documents, each
\* applied whole (its upsert and all its inserts), produces: no document is
\* committed in part.
Thm_C5_DocumentAtomic ==
    /\ db_wells = Replay(reflected).wells
    /\ db_stim = Replay(reflected).stim

\* a run that raised after writing part of a document, an earlier run having committed
Wit_C5_PartialNotCommitted ==
    /\ pc = "aborted"
    /\ last.called /\ last.raised /\ last.wrote
    /\ reflected # <<>>
    /\ last.wells_after # db_wells
    /\ Len(last.stim_after) > Len(db_stim)

\* whether process_json raises on document d
DocRaises(d) ==
    \/ ~Catalogue[d].readable
    \/ ExtractedOf[d].raised
    \/ ParsedOf[d].raised
    \/ \E i \in 1..Len(RecordsOf[d]) : InsertRaises(RecordsOf[d][i])

\* the documents a finished run committed
RunCommitted == IF pc = "done" THEN in_tx ELSE <<>>

\* C6. When a document of the batch is unreadable, only that document is given up:
\* once the run is over, the other documents of the batch are committed.
CE_C6_BatchContinues ==
    (/\ pc \in {"done", "aborted"}
     /\ \A i \in 1..Len(json_files) :
           Catalogue[json_files[i]].readable => ~DocRaises(json_files[i]))
    => RunCommitted = SelectSeq(json_files, LAMBDA d : Catalogue[d].readable)

\* the key the identity fallback gives a document
FallbackKey(data) ==
    LET cp == collect_page_data(data.pages)
        api == ResolvedApi(cp.merged_fields, cp.all_texts)
        well_number == WellNumber(data, cp.merged_fields, cp.all_texts)
    IN  IF api # None THEN api[1]
        ELSE IF well_number # <<>> THEN <<"N", "D", "I", "C", "-">> \o well_number
        ELSE <<"U", "N", "K", "N", "O", "W", "N">>

\* C7. The key of a document is the normalized API when one was recovered, else
\* NDIC-<well_number> when a well number was recovered, else UNKNOWN; the well is
\* upserted under it and every stimulation row inserted for the document carries it.
Thm_C7_IdentityFallback ==
    (last.called /\ last.wrote) =>
        LET key == FallbackKey(Catalogue[last.doc])
        IN  /\ LastNew.api_number = Some(key)
            /\ key \in DOMAIN last.wells_after
            /\ last.wells_after[key].api_number = Some(key)
            /\ \A i \in (Len(last.stim_before) + 1)..Len(last.stim_after) :
                  last.stim_after[i].api_number = Some(key)

\* a document without an API whose stimulation rows went in under NDIC-20001
Wit_C7_FallbackKeyJoins ==
    /\ last.called /\ last.wrote
    /\ LastNew.api_number = Some(<<"N", "D", "I", "C", "-", "2", "0", "0", "0", "1">>)
    /\ Len(last.stim_after) >= Len(last.stim_before) + 2

-----------------------------------------------------------------------------
(* API normalization (specification SpecApi) *)

NoLetter(s) == \A i \in 1..Len(s) : s[i] \notin AlphaChars

\* D[0:2]-D[2:5]-D[5:10]
Dashed10(D) ==
    <<D[1], D[2], "-", D[3], D[4], D[5], "-", D[6], D[7], D[8], D[9], D[10]>>
\* D[0:2]-D[2:5]-D[5:10]-D[10:12]-D[12:14]
Dashed14(D) == Dashed10(D) \o <<"-", D[11], D[12], "-", D[13], D[14]>>

\* already in the canonical form NN-NNN-NNNNN or NN-NNN-NNNNN-NN-NN
IsCanonical(s) ==
    LET dashes == IF Len(s) = 12 THEN {3, 7} ELSE {3, 7, 13, 16}
    IN  /\ Len(s) \in {12, 18}
        /\ \A i \in 1..Len(s) : IF i \in dashes THEN s[i] = "-" ELSE s[i] \in DigitChars

\* C8. A candidate without letters that holds exactly 10 digits D is returned as
\* D[0:2]-D[2:5]-D[5:10], one that holds exactly 14 as
\* D[0:2]-D[2:5]-D[5:10]-D[10:12]-D[12:14]; so a canonical string is returned as it is.
Thm_C8_CanonicalFormat ==
    (api_step >= 1 /\ NoLetter(api_raw)) =>
        LET D == SelectSeq(api_raw, LAMBDA c : c \in DigitChars)
        IN  /\ Len(D) = 10 => api_res = Some(Dashed10(D))
            /\ Len(D) = 14 => api_res = Some(Dashed14(D))
            /\ IsCanonical(api_raw) => api_res = Some(api_raw)

\* a 14-digit canonical string, itself a result of the function, normalized again
Wit_C8_Canonical14Again ==
    /\ api_step = 2
    /\ IsCanonical(api_raw) /\ Len(api_raw) = 18
    /\ api_res = Some(api_raw)

\* the candidate without its white space
Unspaced(s) == SelectSeq(s, LAMBDA c : c \notin {" ", "\t", "\n"})

\* C9 as stated. A candidate without letters whose digit count is neither 10 nor
\* 14, short or long, is returned without its white space and otherwise unmodified.
CE_C9_AnyOtherLength ==
    (api_step >= 1 /\ NoLetter(api_raw)
       /\ Len(SelectSeq(api_raw, LAMBDA c : c \in DigitChars)) \notin {10, 14})
    => api_res = Some(Unspaced(api_raw))

\* C9, amended. A candidate without letters whose digit count is at least 8 and
\* neither 10 nor 14 is returned without its white space and otherwise unmodified;
\* one with fewer than 8 digits is rejected (None).
Thm_C9_OtherLengthFrom8 ==
    (api_step >= 1 /\ NoLetter(api_raw)
       /\ Len(SelectSeq(api_raw, LAMBDA c : c \in DigitChars)) \notin {10, 14})
    => IF Len(SelectSeq(api_raw, LAMBDA c : c \in DigitChars)) >= 8
       THEN api_res = Some(Unspaced(api_raw))
       ELSE api_res = None

\* an 8-digit candidate with a dash and white space, returned without the white space
Wit_C9_EightDigits ==
    /\ api_step = 1
    /\ NoLetter(api_raw)
    /\ Len(SelectSeq(api_raw, LAMBDA c : c \in DigitChars)) = 8
    /\ \E i \in 1..Len(api_raw) : api_raw[i] = "-"
    /\ \E i \in 1..Len(api_raw) : api_raw[i] = " "
    /\ api_res = Some(Unspaced(api_raw))
    /\ api_res # Some(api_raw)

-----------------------------------------------------------------------------
(* Well-number resolution (specification SpecIdentity) *)

\* the digits of a candidate read as an integer lie in [1000, 199999]
AcceptedWellNumber(c) ==
    /\ c # None
    /\ LET sig == NoLeadingZeros(SelectSeq(c[1], LAMBDA ch : ch \in DigitChars))
       IN  /\ Len(sig) \in 4..6
           /\ 1000 <= IntOf(sig)
           /\ IntOf(sig) <= 199999

\* the candidates of a document in priority order
WellNumberCandidates(data) ==
    LET cp == collect_page_data(data.pages)
    IN  <<FieldGet(cp.merged_fields, "NDIC File Number"),
          FieldGet(cp.merged_fields, "ND Well File #"),
          FieldGet(cp.merged_fields, "Well or Facility No"),
          _search("wnum", NWnumPats, cp.all_texts)>>

\* C10. The well number is the digits of the first candidate, in priority order
\* (the three field labels, then the text search), whose value lies in
\* [1000, 199999]; when no candidate does, it is the digits of the file name stem.
Thm_C10_WellNumberResolution ==
    id_row # None =>
        LET data == id_doc[1]
            cands == WellNumberCandidates(data)
            ok == {i \in 1..4 : AcceptedWellNumber(cands[i])}
            first == CHOOSE i \in ok : \A j \in ok : i <= j
            filename == IF data.pdf_filename = None THEN <<>> ELSE data.pdf_filename[1]
        IN  id_row[1].well_number =
                Some(IF ok # {} THEN SelectSeq(cands[first][1], LAMBDA ch : ch \in DigitChars)
                     ELSE SelectSeq(PathStem(filename), LAMBDA ch : ch \in DigitChars))

\* two candidates out of range passed over for the third
Wit_C10_FallsThrough ==
    /\ id_row # None
    /\ LET cands == WellNumberCandidates(id_doc[1])
       IN  /\ cands[1] = Some(T_999)
           /\ cands[2] = Some(T_1000000)
           /\ cands[3] = Some(T_30000)
           /\ id_row[1].well_number = Some(T_30000)

-----------------------------------------------------------------------------
(* Absent values (specification Spec) *)

OptionalTextColumns == {"well_name", "well_number", "operator", "county", "shl_desc",
                        "datum", "pdf_filename"}

NoEmptyString(wells) ==
    \A k \in DOMAIN wells : \A c \in OptionalTextColumns : wells[k][c] # Some(<<>>)

\* C15: no optional text column of a row of the committed wells table holds the
\* empty string: an unknown value is NULL.
CE_C15_AbsentIsNull ==
    NoEmptyString(db_wells)

-----------------------------------------------------------------------------
(* The stimulation rows of a document (specification Spec) *)

\* the records parse_stimulation returns for the text of every page, in page order
RECURSIVE AllPagesRecords(_)
AllPagesRecords(pages) ==
    IF pages = <<>> THEN <<>>
    ELSE parse_stimulation(Head(pages).text).val \o AllPagesRecords(Tail(pages))

\* C19: the stimulation rows a call of process_json inserts are the records
\* parse_stimulation returns for each page's text, over all pages in page order: the
\* driver skips no page the parser recovers a record from.
CE_C19_NoPageSkipped ==
    (last.called /\ ~last.raised) =>
        LET recs == AllPagesRecords(Catalogue[last.doc].pages)
        IN  last.stim_after
              = last.stim_before
                  \o [i \in 1..Len(recs) |-> StimRow(WellOf[last.doc].api_number[1], recs[i])]

-----------------------------------------------------------------------------
(* Coordinates (specification SpecCoord) *)

\* what _to_coord returned for the latitude and the longitude of a document
ParsedLat(d) ==
    LET cp == collect_page_data(d.pages)
    IN  _to_coord(LatS(cp.merged_fields, cp.all_texts)).val
ParsedLon(d) ==
    LET cp == collect_page_data(d.pages)
    IN  _to_coord(LonS(cp.merged_fields, cp.all_texts)).val

\* the column of the one wells row of the table, None when the table has no row
StoredCoord(wells, column) ==
    IF DOMAIN wells = {} THEN None
    ELSE wells[CHOOSE k \in DOMAIN wells : TRUE][column]

CoordReturned == coord_last.called /\ ~coord_last.raised

InLatBand(x) == Between(x, LatMin, LatMax)
InWestBand(x) == x.neg /\ Between(Negate(x), LonMin, LonMax)

\* C11: every wells row has a latitude that is NULL or inside [45.0, 50.0], and a
\* document whose parsed latitude is outside the band leaves the stored latitude as
\* it was: the value is dropped, not clamped to the band and not stored.
Thm_C11_LatitudeBand ==
    /\ \A k \in DOMAIN coord_wells :
          \/ coord_wells[k].latitude = None
          \/ InLatBand(coord_wells[k].latitude[1])
    /\ (CoordReturned /\ ParsedLat(coord_last.doc) # None
           /\ ~InLatBand(ParsedLat(coord_last.doc)[1]))
          => StoredCoord(coord_wells, "latitude")
                = StoredCoord(coord_last.before, "latitude")

\* a latitude just above the band (50 degrees and a thousandth of a second) was
\* parsed from a first document, and the row has no latitude
Wit_C11_OutOfBandDropped ==
    /\ CoordReturned
    /\ ParsedLat(coord_last.doc) = Some(Num(FALSE, LatMax, <<"0", "0", "0", "0", "0", "0", "3">>))
    /\ DOMAIN coord_last.before = {}
    /\ StoredCoord(coord_wells, "latitude") = None

\* C12: a parsed longitude in [96.0, 105.0] is stored negated, one in
\* [-105.0, -96.0] is stored unchanged, any other is dropped; every stored longitude
\* is NULL or inside [-105.0, -96.0].
Thm_C12_LongitudeSign ==
    /\ \A k \in DOMAIN coord_wells :
          \/ coord_wells[k].longitude = None
          \/ InWestBand(coord_wells[k].longitude[1])
    /\ (CoordReturned /\ ParsedLon(coord_last.doc) # None)
          => LET parsed == ParsedLon(coord_last.doc)[1]
                 kept == IF Between(parsed, LonMin, LonMax) THEN Some(Negate(parsed))
                         ELSE IF InWestBand(parsed) THEN Some(parsed)
                         ELSE None
             IN  StoredCoord(coord_wells, "longitude")
                    = Coalesce(StoredCoord(coord_last.before, "longitude"), kept)

\* 101.5 was parsed and -101.5 is stored
Wit_C12_NegatedStored ==
    /\ CoordReturned
    /\ ParsedLon(coord_last.doc) = Some(Num(FALSE, 101, <<"5">>))
    /\ StoredCoord(coord_wells, "longitude") = Some(Num(TRUE, 101, <<"5">>))

\* C14: a captured number that cannot be converted leaves its field absent and
\* extract_well_row returns: no exception reaches the batch driver.
CE_C14_MalformedNeverRaises ==
    coord_last.called => ~coord_last.raised

-----------------------------------------------------------------------------
(* The degree-minute-second conversion (specification SpecDms) *)

\* degrees + minutes/60 + seconds/3600 in units of 1e-4 degree, for minutes that
\* are a multiple of 3 and seconds that are a multiple of 9 (the quotients are whole)
DmsExpected(p) ==
    LET units == 10000 * IntOf(p.deg) + (500 * IntOf(p.mins)) \div 3
                    + (25 * IntOf(p.secs)) \div 9
    IN  Num(p.letter \in {"S", "W", "s", "w"}, units \div 10000,
            NoTrailingZeros(DigitsOfInt(units % 10000, 4)))

\* C13: for every degree-minute-second text with a hemisphere letter, with or
\* without a mark after the seconds, _dms_to_decimal returns
\* degrees + minutes/60 + seconds/3600, negated when the letter is S or W.
CE_C13_DmsConversion ==
    dms_res # None =>
        \A p \in DmsParts :
            dms_in = DmsText(p) => dms_res[1] = Returned(Some(DmsExpected(p)))

\* what holds: the texts without a mark after the seconds are converted so
Thm_C13_DmsWithoutMark ==
    dms_res # None =>
        \A p \in DmsParts :
            (dms_in = DmsText(p) /\ p.mark = <<>>)
                => dms_res[1] = Returned(Some(DmsExpected(p)))

\* 101 deg 15' 0 W was converted to -101.25
Wit_C13_WestNegated ==
    /\ dms_in = <<"1", "0", "1", DegreeSign, "1", "5", "'", "0", "W">>
    /\ dms_res = Some(Returned(Some(Num(TRUE, 101, <<"2", "5">>))))

-----------------------------------------------------------------------------
(* The stimulation scanner (specification SpecStim) *)

\* a row whose stage count int does not convert
LongStages(page) ==
    \E i \in 1..Len(page) : page[i].kind = "row" /\ IntRaises(page[i].g[5])

\* line j is a row and the nearest line before it that is not blank is a header
RowAfterHeader(page, j) ==
    /\ page[j].kind = "row"
    /\ \E i \in 1..(j - 1) :
          /\ page[i].kind = "stimhdr"
          /\ \A m \in (i + 1)..(j - 1) : page[m].kind = "blank"

\* C16: parse_stimulation raises on no page text, and returns no record for a page
\* none of whose headers is followed by a line of the row grammar.
CE_C16_NeverRaises ==
    stim_res # None =>
        /\ ~stim_res[1].raised
        /\ (\A j \in 1..Len(stim_page) : ~RowAfterHeader(stim_page, j))
              => stim_res[1].val = <<>>

\* what holds: the same, for the pages without a stage count int does not convert
Thm_C16_NeverRaisesShortCounts ==
    (stim_res # None /\ ~LongStages(stim_page)) =>
        /\ ~stim_res[1].raised
        /\ (\A j \in 1..Len(stim_page) : ~RowAfterHeader(stim_page, j))
              => stim_res[1].val = <<>>

\* a header, then a line that is no row: no record, no exception
Wit_C16_HeaderWithoutRow ==
    /\ stim_page = <<HdrLine(TRUE), Other("text")>>
    /\ stim_res = Some(Returned(<<>>))

\* the numeric values present on a treatment row, in the order they are printed
PresentValues(ln) ==
    SelectSeq([k \in 1..4 |-> _to_float(ln.g[k])], LAMBDA x : x # None)

NoTreatment == [acid_percent |-> None, lbs_proppant |-> None, max_pressure |-> None,
                max_rate |-> None]

\* the four numeric fields after a row with the values v, from what they were
MapByCount(was, v) ==
    IF Len(v) = 4
    THEN [acid_percent |-> v[1], lbs_proppant |-> v[2], max_pressure |-> v[3],
          max_rate |-> v[4]]
    ELSE IF Len(v) = 3
    THEN [was EXCEPT !.lbs_proppant = v[1], !.max_pressure = v[2], !.max_rate = v[3]]
    ELSE IF Len(v) \in {1, 2}
    THEN [was EXCEPT !.lbs_proppant = v[1]]
    ELSE was

TreatFields(rec) == [c \in DOMAIN NoTreatment |-> rec[c]]

RowsAfterHeader(page) == {j \in 1..Len(page) : RowAfterHeader(page, j)}

\* line i is a header and the nearest line before it that is not blank is a
\* treatment header
HeaderAfterTreatHeader(page, i) ==
    /\ page[i].kind = "stimhdr"
    /\ \E t \in 1..(i - 1) :
          /\ page[t].kind = "treathdr"
          /\ \A m \in (t + 1)..(i - 1) : page[m].kind = "blank"

\* C18: a header reached while a record is open, at any position, ends the record
\* and is examined again: with the row after it, it starts a new record.  So the
\* page gives as many records as it has rows that follow a header.
CE_C18_HeaderNeverSwallowed ==
    (stim_res # None /\ ~stim_res[1].raised) =>
        Len(stim_res[1].val) = Cardinality(RowsAfterHeader(stim_page))

\* what holds: the same, for the pages where no header is the first non-blank line
\* after a treatment header
Thm_C18_HeaderElsewhere ==
    (stim_res # None /\ ~stim_res[1].raised
        /\ \A i \in 1..Len(stim_page) : ~HeaderAfterTreatHeader(stim_page, i)) =>
        Len(stim_res[1].val) = Cardinality(RowsAfterHeader(stim_page))

\* a header inside a Details block ended the record and started the next
Wit_C18_HeaderInDetails ==
    /\ stim_page = <<HdrLine(TRUE), StimRowA, DetailsLine, HdrLine(TRUE), StimRowA>>
    /\ stim_res # None
    /\ Len(stim_res[1].val) = 2

=============================================================================
